---- MODULE Spec2Model ----
(***************************************************************************)
(* A model of the Kubernetes reflector (src/kubernetes/reflector.rs) and   *)
(* of its delayed-delete queue (src/kubernetes/delayed_delete.rs).         *)
(*                                                                         *)
(* Reflector::run is one cooperative task; its suspension points are the   *)
(* watch invocation, the stream read, the delete-deadline sleep and the    *)
(* pause between requests.  Each action below is the code that runs        *)
(* between two suspension points.  The watcher, the stream and the clock   *)
(* are the environment: their answers are chosen nondeterministically.     *)
(***************************************************************************)
EXTENDS Integers, Sequences, FiniteSets, TLC

\* ------------------------------------------------------------- bounds
MaxItems == 2    \* watch events delivered in one run
MaxTime == 2     \* last instant of the monotonic clock
DelayFor == 1    \* the delay_deletes_for that is configured, in clock ticks
MaxQueue == 3    \* the longest queue perform is applied to on its own

\* ------------------------------------------------------------- values
\* Option<T>: None is the empty tuple, Some(x) a one-element tuple.
None == <<>>
Some(x) == <<x>>

Uids == {"uid0", "uid1"}
Rvs == {"10", "15"}
\* <<field_selector, label_selector, delay_deletes_for>> the reflector is
\* constructed with: no selectors and immediate deletes, or both selectors
\* and delayed deletes.  The selectors are read by issue_request only.
Configs ==
    {<<None, None, None>>}
        \cup {<<Some("fields"), Some("labels"), Some(DelayFor)>>}

\* WatchEvent<T>: the four object-carrying variants and the error variant,
\* which carries no object.  An object is its metadata: uid and
\* resourceVersion, both optional.  `id` and `at` are history fields: the
\* ordinal of the stream item that carried the object and the instant it
\* was received.
EventTypes == {"Added", "Modified", "Deleted", "Bookmark"}

\* What the watcher may put on the wire for one stream item.
WireEvents ==
    [type : {"Added", "Modified", "Deleted"},
     uid : {Some(u) : u \in Uids},
     resource_version : {None} \cup {Some(r) : r \in Rvs}]
        \cup [type : {"Bookmark"},
              uid : {None},
              resource_version : {None} \cup {Some(r) : r \in Rvs}]
        \cup [type : {"ErrorStatus"}, uid : {None}, resource_version : {None}]

WireItems ==
    [kind : {"Err", "Other"}] \cup [kind : {"Ok"}, event : WireEvents]

\* The stream item the reflector receives for wire item w, the id-th item of
\* the run, at instant t: Err(_), Ok(WatchResponse::Other) or
\* Ok(WatchResponse::Ok(event)).
Deliver(w, id, t) ==
    IF w.kind # "Ok"
    THEN [kind |-> w.kind]
    ELSE [kind |-> "Ok",
          event |-> [type |-> w.event.type,
                     object |-> [uid |-> w.event.uid,
                                 resource_version |-> w.event.resource_version,
                                 id |-> id,
                                 at |-> t]]]

EmptyMap == [u \in Uids |-> None]

VARIABLES
    pc,                 \* position of run: Invoking, InFlight, Streaming, Pausing,
                        \* Terminated (run returned), Panicked (run panicked)
    result,             \* what run returned: None, Some("Invocation"), Some("Streaming")
    field_selector,     \* Reflector.field_selector
    label_selector,     \* Reflector.label_selector
    delay_deletes_for,  \* None, or Some(delay_for) of the DelayedDelete
    resource_version,   \* resource_version::State: the cursor
    queue,              \* DelayedDelete.queue: sequence of <<item, deadline>>
    state_writer,       \* the writer: what readers see, and a purge not yet flushed
    watch_optional,     \* the options of the watch request last issued
    now,                \* the monotonic clock
    hist                \* history of the run (never read by the program)

vars ==
    <<pc, result, field_selector, label_selector, delay_deletes_for, resource_version,
      queue, state_writer, watch_optional, now, hist>>

config == <<field_selector, label_selector, delay_deletes_for>>

\* ------------------------------------------------- resource_version::State
\* The tracker holds an optional opaque string.  update overwrites it
\* unconditionally, reset clears it, get returns it.
rv_get(state) == state

rv_update(state, candidate) == Some(candidate)

rv_reset(state) == None

\* Candidate::from_watch_event: the resourceVersion of the object the event
\* embeds, when the event embeds one and it has a resourceVersion.
from_watch_event(event) ==
    IF event.type \in EventTypes THEN event.object.resource_version ELSE None

\* ------------------------------------------------------------ state::Write
\* The writer keeps a uid-keyed map.  `visible` is what a reader observes.
\* resync() only marks the entries stale: the purge reaches the readers
\* with the next add, update or delete, which replaces the stale snapshot.
Base(w) == IF w.purge_pending THEN EmptyMap ELSE w.visible

add(w, object) ==
    [visible |-> [Base(w) EXCEPT ![object.uid[1]] = object.resource_version],
     purge_pending |-> FALSE]

update(w, object) ==
    [visible |-> [Base(w) EXCEPT ![object.uid[1]] = object.resource_version],
     purge_pending |-> FALSE]

delete(w, object) ==
    [visible |-> [Base(w) EXCEPT ![object.uid[1]] = None], purge_pending |-> FALSE]

resync(w) == [w EXCEPT !.purge_pending = TRUE]

\* A call made on the writer, as the history records it.
Call(op, object) == [op |-> op, object |-> object]

\* ------------------------------------------------------------ DelayedDelete
\* schedule_delete that takes the delay off the clock instead of adding it.
schedule_delete_subtracts(q, delay_for, item, t) == Append(q, <<item, delay_for - t>>)

\* schedule_delete that pushes at the front of the queue.
schedule_delete_front(q, delay_for, item, t) == <<<<item, t + delay_for>>>> \o q

\* schedule_delete at instant t of a queue whose delay is delay_for.
schedule_delete(q, delay_for, item, t) == Append(q, <<item, t + delay_for>>)

\* clear that forgets to empty the queue.
clear_noop(q) == q

clear(q) == <<>>

next_deadline(q) == IF q = <<>> THEN None ELSE Some(q[1][2])

\* perform that serves the front entry only.
perform_one(r, t) ==
    IF next_deadline(r.queue) = None
    THEN r
    ELSE IF next_deadline(r.queue)[1] > t
         THEN r
         ELSE [r EXCEPT !.queue = Tail(@),
                        !.state_writer = delete(@, r.queue[1][1]),
                        !.calls = Append(@, Call("delete", r.queue[1][1]))]

\* perform that deletes the due items newest first.
RECURSIVE perform_reversed(_, _)
perform_reversed(r, t) ==
    IF next_deadline(r.queue) = None
    THEN r
    ELSE IF next_deadline(r.queue)[1] > t
         THEN r
         ELSE LET rest == perform_reversed([r EXCEPT !.queue = Tail(@)], t)
              IN  [rest EXCEPT !.state_writer = delete(@, r.queue[1][1]),
                               !.calls = Append(@, Call("delete", r.queue[1][1]))]

\* perform without the deadline test: it drains the whole queue.
RECURSIVE perform_all(_, _)
perform_all(r, t) ==
    IF r.queue = <<>>
    THEN r
    ELSE perform_all([r EXCEPT !.queue = Tail(@),
                               !.state_writer = delete(@, r.queue[1][1]),
                               !.calls = Append(@, Call("delete", r.queue[1][1]))],
                     t)

\* perform at instant t: pops from the front while the front deadline is
\* not after t, deleting each popped item from the writer.  r is the
\* reflector's mutable state; r.calls collects the writer calls.
RECURSIVE perform(_, _)
perform(r, t) ==
    IF next_deadline(r.queue) = None
    THEN r
    ELSE IF next_deadline(r.queue)[1] > t
         THEN r
         ELSE perform([r EXCEPT !.queue = Tail(@),
                                !.state_writer = delete(@, r.queue[1][1]),
                                !.calls = Append(@, Call("delete", r.queue[1][1]))],
                      t)

\* next_deadline_delay that lets the future be polled whatever the queue holds.
next_deadline_delay_alwayspoll(q) == [deadline |-> next_deadline(q), should_poll |-> TRUE]

\* next_deadline_delay: the instant the returned future completes at, and
\* whether the future may be polled.
next_deadline_delay(q) ==
    IF next_deadline(q) = None
    THEN [deadline |-> None, should_poll |-> FALSE]
    ELSE [deadline |-> next_deadline(q), should_poll |-> TRUE]

\* ---------------------------------------------------------------- Reflector
\* The mutable part of the reflector, as the operators below pass it on:
\* the cursor, the delayed-delete queue and the writer, with the writer
\* calls made so far in the current step and the panic raised, if any.
Self ==
    [resource_version |-> resource_version,
     queue |-> queue,
     state_writer |-> state_writer,
     calls |-> <<>>,
     panic |-> None]

\* issue_request with the two selectors exchanged.
issue_request_swapped(fs, ls, rv) ==
    [field_selector |-> ls,
     label_selector |-> fs,
     pretty |-> None,
     resource_version |-> rv_get(rv),
     timeout_seconds |-> None,
     allow_watch_bookmarks |-> Some(TRUE)]

\* issue_request: the WatchOptional the request is sent with.
issue_request(fs, ls, rv) ==
    [field_selector |-> fs,
     label_selector |-> ls,
     pretty |-> None,
     resource_version |-> rv_get(rv),
     timeout_seconds |-> None,
     allow_watch_bookmarks |-> Some(TRUE)]

\* The Desync arm without the cursor reset.
handle_desync_noreset(r, dd) ==
    [r EXCEPT !.queue = IF dd # None THEN clear(@) ELSE @,
              !.state_writer = resync(@),
              !.calls = Append(@, Call("resync", None))]

\* The Desync arm without the clear of the delayed deletes.
handle_desync_noclear(r, dd) ==
    [r EXCEPT !.resource_version = rv_reset(@),
              !.state_writer = resync(@),
              !.calls = Append(@, Call("resync", None))]

\* handle_desync that never tells the writer to resync.
handle_desync_noresync(r, dd) ==
    [r EXCEPT !.resource_version = rv_reset(@),
              !.queue = IF dd # None THEN clear(@) ELSE @]

\* run, the Desync arm: reset the cursor, clear the delayed deletes when
\* they are configured, resync the writer.
handle_desync(r, dd) ==
    [r EXCEPT !.resource_version = rv_reset(@),
              !.queue = IF dd # None THEN clear(@) ELSE @,
              !.state_writer = resync(@),
              !.calls = Append(@, Call("resync", None))]

\* process_event whose Deleted arm never reaches the writer.
process_event_nodelete(r, dd, event, t) ==
    CASE event.type = "Added" ->
            [r EXCEPT !.state_writer = add(@, event.object),
                      !.calls = Append(@, Call("add", event.object))]
      [] event.type = "Deleted" ->
            IF dd # None
            THEN [r EXCEPT !.queue = schedule_delete(@, dd[1], event.object, t)]
            ELSE r
      [] event.type = "Modified" ->
            [r EXCEPT !.state_writer = update(@, event.object),
                      !.calls = Append(@, Call("update", event.object))]
      [] event.type = "Bookmark" -> r
      [] OTHER -> [r EXCEPT !.panic = Some("unreachable")]

\* process_event whose Deleted arm deletes at once even when the delete is
\* scheduled.
process_event_immediatedelete(r, dd, event, t) ==
    CASE event.type = "Added" ->
            [r EXCEPT !.state_writer = add(@, event.object),
                      !.calls = Append(@, Call("add", event.object))]
      [] event.type = "Deleted" ->
            [r EXCEPT !.queue = IF dd # None
                                THEN schedule_delete(@, dd[1], event.object, t)
                                ELSE @,
                      !.state_writer = delete(@, event.object),
                      !.calls = Append(@, Call("delete", event.object))]
      [] event.type = "Modified" ->
            [r EXCEPT !.state_writer = update(@, event.object),
                      !.calls = Append(@, Call("update", event.object))]
      [] event.type = "Bookmark" -> r
      [] OTHER -> [r EXCEPT !.panic = Some("unreachable")]

\* process_event whose Added and Modified arms cancel the deletes queued for
\* the same object.
process_event_cancels(r, dd, event, t) ==
    CASE event.type = "Added" ->
            [r EXCEPT !.state_writer = add(@, event.object),
                      !.calls = Append(@, Call("add", event.object)),
                      !.queue = SelectSeq(@, LAMBDA e : e[1].uid # event.object.uid)]
      [] event.type = "Deleted" ->
            IF dd # None
            THEN [r EXCEPT !.queue = schedule_delete(@, dd[1], event.object, t)]
            ELSE [r EXCEPT !.state_writer = delete(@, event.object),
                           !.calls = Append(@, Call("delete", event.object))]
      [] event.type = "Modified" ->
            [r EXCEPT !.state_writer = update(@, event.object),
                      !.calls = Append(@, Call("update", event.object)),
                      !.queue = SelectSeq(@, LAMBDA e : e[1].uid # event.object.uid)]
      [] event.type = "Bookmark" -> r
      [] OTHER -> [r EXCEPT !.panic = Some("unreachable")]

\* process_event at instant t; dd is delay_deletes_for.
process_event(r, dd, event, t) ==
    CASE event.type = "Added" ->
            [r EXCEPT !.state_writer = add(@, event.object),
                      !.calls = Append(@, Call("add", event.object))]
      [] event.type = "Deleted" ->
            IF dd # None
            THEN [r EXCEPT !.queue = schedule_delete(@, dd[1], event.object, t)]
            ELSE [r EXCEPT !.state_writer = delete(@, event.object),
                           !.calls = Append(@, Call("delete", event.object))]
      [] event.type = "Modified" ->
            [r EXCEPT !.state_writer = update(@, event.object),
                      !.calls = Append(@, Call("update", event.object))]
      [] event.type = "Bookmark" -> r
      [] OTHER -> [r EXCEPT !.panic = Some("unreachable")]

\* process_stream_item that dispatches the event and never commits its
\* resourceVersion.
process_stream_item_nocommit(r, dd, item, t) ==
    IF item.kind = "Err"
    THEN [self |-> r, ret |-> "Err"]
    ELSE IF item.kind = "Other"
         THEN [self |-> r, ret |-> "Ok"]
         ELSE IF from_watch_event(item.event) = None
              THEN [self |-> r, ret |-> "Ok"]
              ELSE [self |-> process_event(r, dd, item.event, t), ret |-> "Ok"]

\* process_stream_item that skips a Bookmark altogether.
process_stream_item_skipbookmark(r, dd, item, t) ==
    IF item.kind = "Err"
    THEN [self |-> r, ret |-> "Err"]
    ELSE IF item.kind = "Other"
         THEN [self |-> r, ret |-> "Ok"]
         ELSE IF from_watch_event(item.event) = None \/ item.event.type = "Bookmark"
              THEN [self |-> r, ret |-> "Ok"]
              ELSE [self |-> [process_event(r, dd, item.event, t) EXCEPT
                                 !.resource_version =
                                     rv_update(@, from_watch_event(item.event)[1])],
                    ret |-> "Ok"]

\* process_stream_item that takes WatchResponse::Other for a stream error.
process_stream_item_otherfatal(r, dd, item, t) ==
    IF item.kind \in {"Err", "Other"}
    THEN [self |-> r, ret |-> "Err"]
    ELSE IF from_watch_event(item.event) = None
         THEN [self |-> r, ret |-> "Ok"]
         ELSE [self |-> [process_event(r, dd, item.event, t) EXCEPT
                            !.resource_version =
                                rv_update(@, from_watch_event(item.event)[1])],
               ret |-> "Ok"]

\* process_stream_item that commits the resourceVersion without dispatching
\* the event.
process_stream_item_commitonly(r, dd, item, t) ==
    IF item.kind = "Err"
    THEN [self |-> r, ret |-> "Err"]
    ELSE IF item.kind = "Other"
         THEN [self |-> r, ret |-> "Ok"]
         ELSE IF from_watch_event(item.event) = None
              THEN [self |-> r, ret |-> "Ok"]
              ELSE [self |-> [r EXCEPT
                                 !.resource_version =
                                     rv_update(@, from_watch_event(item.event)[1])],
                    ret |-> "Ok"]

\* process_stream_item that dispatches an event even when no resourceVersion
\* can be extracted from it.
process_stream_item_applyunversioned(r, dd, item, t) ==
    IF item.kind = "Err"
    THEN [self |-> r, ret |-> "Err"]
    ELSE IF item.kind = "Other"
         THEN [self |-> r, ret |-> "Ok"]
         ELSE IF item.event.type = "ErrorStatus"
              THEN [self |-> r, ret |-> "Ok"]
              ELSE IF from_watch_event(item.event) = None
                   THEN [self |-> process_event(r, dd, item.event, t), ret |-> "Ok"]
                   ELSE [self |-> [process_event(r, dd, item.event, t) EXCEPT
                                      !.resource_version =
                                          rv_update(@, from_watch_event(item.event)[1])],
                         ret |-> "Ok"]

\* process_stream_item that also performs the due deletes once the item is
\* processed.
process_stream_item_drains(r, dd, item, t) ==
    IF item.kind = "Err"
    THEN [self |-> r, ret |-> "Err"]
    ELSE IF item.kind = "Other"
         THEN [self |-> r, ret |-> "Ok"]
         ELSE IF from_watch_event(item.event) = None
              THEN [self |-> r, ret |-> "Ok"]
              ELSE [self |-> perform([process_event(r, dd, item.event, t) EXCEPT
                                         !.resource_version =
                                             rv_update(@, from_watch_event(item.event)[1])],
                                     t),
                    ret |-> "Ok"]

\* process_stream_item that dispatches every event and only then looks
\* for the resourceVersion to commit.
process_stream_item_dispatchfirst(r, dd, item, t) ==
    IF item.kind = "Err"
    THEN [self |-> r, ret |-> "Err"]
    ELSE IF item.kind = "Other"
         THEN [self |-> r, ret |-> "Ok"]
         ELSE LET applied == process_event(r, dd, item.event, t)
              IN  IF applied.panic # None \/ from_watch_event(item.event) = None
                  THEN [self |-> applied, ret |-> "Ok"]
                  ELSE [self |-> [applied EXCEPT
                                     !.resource_version =
                                         rv_update(@, from_watch_event(item.event)[1])],
                        ret |-> "Ok"]

\* process_stream_item that flushes the queued deletes when the stream
\* fails.
process_stream_item_errflush(r, dd, item, t) ==
    IF item.kind = "Err"
    THEN [self |-> perform_all(r, t), ret |-> "Err"]
    ELSE IF item.kind = "Other"
         THEN [self |-> r, ret |-> "Ok"]
         ELSE IF from_watch_event(item.event) = None
              THEN [self |-> r, ret |-> "Ok"]
              ELSE [self |-> [process_event(r, dd, item.event, t) EXCEPT
                                 !.resource_version =
                                     rv_update(@, from_watch_event(item.event)[1])],
                    ret |-> "Ok"]

\* process_stream_item at instant t: the reflector afterwards and what the
\* function returns, Ok(()) or the Streaming error.
process_stream_item(r, dd, item, t) ==
    IF item.kind = "Err"
    THEN [self |-> r, ret |-> "Err"]
    ELSE IF item.kind = "Other"
         THEN [self |-> r, ret |-> "Ok"]
         ELSE IF from_watch_event(item.event) = None
              THEN [self |-> r, ret |-> "Ok"]
              ELSE LET applied == process_event(r, dd, item.event, t)
                   IN  IF applied.panic # None
                       THEN [self |-> applied, ret |-> "Ok"]
                       ELSE [self |-> [applied EXCEPT
                                          !.resource_version =
                                              rv_update(@, from_watch_event(item.event)[1])],
                             ret |-> "Ok"]

\* ------------------------------------------------------------------ history
\* An event that counts as versioned: one of the four object-carrying
\* variants whose object carries a resourceVersion.
Versioned(item) ==
    /\ item.kind = "Ok"
    /\ item.event.type \in {"Added", "Modified", "Deleted", "Bookmark"}
    /\ item.event.object.resource_version # None

\* One step of the fold of the versioned events over a uid-keyed map.
FoldStep(m, event) ==
    CASE event.type \in {"Added", "Modified"} ->
            [m EXCEPT ![event.object.uid[1]] = event.object.resource_version]
      [] event.type = "Deleted" -> [m EXCEPT ![event.object.uid[1]] = None]
      [] OTHER -> m

\* The ids of the objects the calls delete, in call order.
DeleteIds(calls) ==
    LET dels == SelectSeq(calls, LAMBDA c : c.op = "delete")
    IN  [i \in 1..Len(dels) |-> dels[i].object.id]

QueueIds(q) == {q[i][1].id : i \in 1..Len(q)}

\* The history after a program step named step that consumed item (None
\* when it consumed none) and made the writer calls.
Record(step, item, calls) ==
    [hist EXCEPT !.step = step,
                 !.item = item,
                 !.calls = calls,
                 !.delete_log = @ \o DeleteIds(calls)]

InitHist ==
    [n_items |-> 0,                 \* watch events delivered
     after |-> "new",               \* the step before the last request was issued
     step |-> "new",                \* the last program step
     item |-> None,                 \* the stream item it consumed
     calls |-> <<>>,                \* the writer calls it made
     delete_log |-> <<>>,           \* ids of all deletes the writer saw, in order
     prev_result |-> "none",        \* how the previous invocation went: ended, desync
     sess_first |-> 1,              \* number of the first watch event of the session
     sess_last_rv |-> None,         \* resourceVersion of the session's last versioned event
     desynced |-> FALSE,            \* a desync has happened
     pre_desync |-> [visible |-> EmptyMap, cursor |-> None],  \* mirror and cursor at the last desync
     applied_since_desync |-> FALSE,  \* a versioned event was dispatched since the last desync
     discarded |-> {},              \* ids of the deletes a desync dropped from the queue
     folded |-> EmptyMap,           \* fold of all versioned events of the run
     since_fold |-> EmptyMap,       \* fold of the versioned events since the last desync
     since_touched |-> {}]          \* uids added or modified since the last desync

\* ------------------------------------------------------------------ actions
Init ==
    /\ pc = "Invoking"
    /\ result = None
    /\ \E c \in Configs :
          /\ field_selector = c[1]
          /\ label_selector = c[2]
          /\ delay_deletes_for = c[3]
    /\ resource_version = None
    /\ queue = <<>>
    /\ state_writer = [visible |-> EmptyMap, purge_pending |-> FALSE]
    /\ watch_optional = None
    /\ now = 0
    /\ hist = InitHist

\* The reflector's mutable state becomes r.
Becomes(r) ==
    /\ resource_version' = r.resource_version
    /\ queue' = r.queue
    /\ state_writer' = r.state_writer

\* run: self.issue_request() up to the await of watcher.watch.
IssueRequest ==
    /\ pc = "Invoking"
    /\ watch_optional' = Some(issue_request(field_selector, label_selector, resource_version))
    /\ pc' = "InFlight"
    /\ hist' = [Record("issue", None, <<>>) EXCEPT !.after = hist.step]
    /\ UNCHANGED <<result, config, resource_version, queue, state_writer, now>>

\* The invocation returned Ok(stream).
WatchOk ==
    /\ pc = "InFlight"
    /\ pc' = "Streaming"
    /\ hist' = [Record("ok", None, <<>>) EXCEPT !.sess_first = hist.n_items + 1,
                                                !.sess_last_rv = None]
    /\ UNCHANGED <<result, config, resource_version, queue, state_writer, watch_optional, now>>

\* The invocation returned Err(Desync): handle it and continue the loop.
WatchDesync ==
    /\ pc = "InFlight"
    /\ LET r == handle_desync(Self, delay_deletes_for)
       IN  /\ Becomes(r)
           /\ hist' = [Record("desync", None, r.calls) EXCEPT
                          !.prev_result = "desync",
                          !.desynced = TRUE,
                          !.pre_desync = [visible |-> state_writer.visible,
                                          cursor |-> resource_version],
                          !.applied_since_desync = FALSE,
                          !.discarded = @ \cup QueueIds(queue),
                          !.since_fold = EmptyMap,
                          !.since_touched = {}]
    /\ pc' = "Invoking"
    /\ UNCHANGED <<result, config, watch_optional, now>>

\* The invocation returned Err(Other): run returns Error::Invocation.
WatchOther ==
    /\ pc = "InFlight"
    /\ pc' = "Terminated"
    /\ result' = Some("Invocation")
    /\ hist' = Record("other", None, <<>>)
    /\ UNCHANGED <<config, resource_version, queue, state_writer, watch_optional, now>>

\* select!, first branch: the future next_deadline_delay returned is polled
\* when should_poll says so.  The delay until the front deadline completes
\* once the deadline is reached; the placeholder of an empty queue panics.
DeadlineElapsed ==
    /\ pc = "Streaming"
    /\ delay_deletes_for # None
    /\ LET delay == next_deadline_delay(queue)
       IN  /\ delay.should_poll
           /\ IF delay.deadline = None
              THEN /\ pc' = "Panicked"
                   /\ hist' = Record("no deadline", None, <<>>)
                   /\ UNCHANGED <<resource_version, queue, state_writer>>
              ELSE /\ delay.deadline[1] <= now
                   /\ LET r == perform(Self, now)
                      IN  /\ Becomes(r)
                          /\ hist' = Record("deadline", None, r.calls)
                   /\ pc' = pc
    /\ UNCHANGED <<result, config, watch_optional, now>>

\* stream.next() returned Some(item): process_stream_item(item)?.
StreamItem ==
    /\ pc = "Streaming"
    /\ \E w \in WireItems :
          LET item == Deliver(w, hist.n_items + 1, now)
              out == process_stream_item(Self, delay_deletes_for, item, now)
              v == Versioned(item)
          IN  /\ item.kind = "Ok" => hist.n_items < MaxItems
              /\ Becomes(out.self)
              /\ pc' = IF out.self.panic # None
                       THEN "Panicked"
                       ELSE IF out.ret = "Err" THEN "Terminated" ELSE "Streaming"
              /\ result' = IF out.ret = "Err" THEN Some("Streaming") ELSE result
              /\ hist' = [Record("item", Some(item), out.self.calls) EXCEPT
                             !.n_items = IF item.kind = "Ok" THEN @ + 1 ELSE @,
                             !.sess_last_rv =
                                 IF v THEN item.event.object.resource_version ELSE @,
                             !.applied_since_desync = @ \/ v,
                             !.folded = IF v THEN FoldStep(@, item.event) ELSE @,
                             !.since_fold = IF v THEN FoldStep(@, item.event) ELSE @,
                             !.since_touched =
                                 IF v /\ item.event.type \in {"Added", "Modified"}
                                 THEN @ \cup {item.event.object.uid[1]}
                                 ELSE @]
    /\ UNCHANGED <<config, watch_optional, now>>

\* The stream end that forgets the cursor.
StreamEnd_resets ==
    /\ pc = "Streaming"
    /\ pc' = "Pausing"
    /\ resource_version' = None
    /\ hist' = [Record("end", None, <<>>) EXCEPT !.prev_result = "ended"]
    /\ UNCHANGED <<result, config, queue, state_writer, watch_optional, now>>

\* The stream end without the pause that follows it.
StreamEnd_nopause ==
    /\ pc = "Streaming"
    /\ pc' = "Invoking"
    /\ hist' = [Record("end", None, <<>>) EXCEPT !.prev_result = "ended"]
    /\ UNCHANGED <<result, config, resource_version, queue, state_writer, watch_optional, now>>

\* stream.next() returned None: the stream ended, leave the inner loop.
StreamEnd ==
    /\ pc = "Streaming"
    /\ pc' = "Pausing"
    /\ hist' = [Record("end", None, <<>>) EXCEPT !.prev_result = "ended"]
    /\ UNCHANGED <<result, config, resource_version, queue, state_writer, watch_optional, now>>

\* The pause that performs the due deletes when it is over.
Pause_performs ==
    /\ pc = "Pausing"
    /\ pc' = "Invoking"
    /\ LET r == perform(Self, now)
       IN  /\ Becomes(r)
           /\ hist' = Record("pause", None, r.calls)
    /\ UNCHANGED <<result, config, watch_optional, now>>

\* delay_for(self.pause_between_requests) completed.
Pause ==
    /\ pc = "Pausing"
    /\ pc' = "Invoking"
    /\ hist' = Record("pause", None, <<>>)
    /\ UNCHANGED <<result, config, resource_version, queue, state_writer, watch_optional, now>>

\* The clock advances.  The program reads the clock only in DelayedDelete
\* (schedule_delete, perform and the deadline sleep), so without delayed
\* deletes its passing is not observed and is left out.  Time passes while
\* run is suspended at an await: the code between two awaits is synchronous.
Tick ==
    /\ delay_deletes_for # None
    /\ pc \in {"InFlight", "Streaming", "Pausing"}
    /\ now < MaxTime
    /\ now' = now + 1
    /\ UNCHANGED <<pc, result, config, resource_version, queue, state_writer,
                   watch_optional, hist>>

Next ==
    \/ IssueRequest
    \/ WatchOk
    \/ WatchDesync
    \/ WatchOther
    \/ DeadlineElapsed
    \/ StreamItem
    \/ StreamEnd
    \/ Pause
    \/ Tick

Spec == Init /\ [][Next]_vars

\* perform on its own: any queue DelayedDelete can hold, of at most MaxQueue
\* entries with deadlines in schedule order, at any instant.
PerformQueues ==
    UNION {{q \in [1..n -> Uids \X (0..(MaxTime + DelayFor))] :
                \A i \in 1..(n - 1) : q[i][2] <= q[i + 1][2]} : n \in 0..MaxQueue}

PerformInit ==
    /\ pc = "Perform"
    /\ result = None
    /\ field_selector = None
    /\ label_selector = None
    /\ delay_deletes_for = Some(DelayFor)
    /\ resource_version = None
    /\ \E q \in PerformQueues :
          queue = [i \in 1..Len(q) |->
                      <<[uid |-> Some(q[i][1]), resource_version |-> Some("10"),
                         id |-> i, at |-> 0], q[i][2]>>]
    /\ state_writer = [visible |-> [u \in Uids |-> Some("10")], purge_pending |-> FALSE]
    /\ watch_optional = None
    /\ now \in 0..MaxTime
    /\ hist = InitHist

\* delayed_delete.perform(&mut state_writer) at instant now.
Perform ==
    /\ pc = "Perform"
    /\ pc' = "Performed"
    /\ LET r == perform(Self, now)
       IN  /\ Becomes(r)
           /\ hist' = Record("perform", None, r.calls)
    /\ UNCHANGED <<result, config, watch_optional, now>>

SpecPerform == PerformInit /\ [][Perform]_vars

\* select! polls its branches in random order, so a branch that stays ready
\* is taken sooner or later, whatever the other branch does.
FairSpec == Spec /\ WF_vars(DeadlineElapsed)

\* --------------------------------------------------------------- properties
\* The options of the request in flight.
Request == watch_optional[1]

\* C1: a session that was invoked successfully and whose stream ended
\* cleanly is followed by an invocation whose resource_version is the
\* resourceVersion of the last versioned event the session processed.
C1_ResumeFromLastVersioned ==
    (pc = "InFlight" /\ hist.prev_result = "ended" /\ hist.sess_last_rv # None)
        => Request.resource_version = hist.sess_last_rv

C1_Witness ==
    /\ pc = "InFlight"
    /\ hist.prev_result = "ended"
    /\ hist.sess_last_rv # None
    /\ hist.n_items = MaxItems

\* C2: the first invocation of a run, and the first invocation after one
\* that returned Desync, carry no resource_version, whatever the cursor was
\* before the desync.
C2_AbsentFirstAndAfterDesync ==
    (pc = "InFlight" /\ hist.prev_result \in {"none", "desync"})
        => Request.resource_version = None

C2_Witness ==
    /\ pc = "InFlight"
    /\ hist.prev_result = "desync"
    /\ hist.pre_desync.cursor # None

\* C3: from a desync until the first versioned event after it is applied,
\* a reader sees the mirror as it was at the desync, although resync() has
\* been called on the writer.
C3_MirrorKeptAfterDesync ==
    (hist.desynced /\ ~hist.applied_since_desync)
        => state_writer.visible = hist.pre_desync.visible

C3_Witness ==
    /\ hist.desynced
    /\ ~hist.applied_since_desync
    /\ pc = "Streaming"
    /\ state_writer.purge_pending
    /\ state_writer.visible # EmptyMap

\* C4: when a session that followed a desync has ended and its events have
\* been applied, the mirror holds only objects added or modified since the
\* desync, and with immediate deletes it is exactly the fold of the events
\* since the desync.
C4_PrunedAfterDesync ==
    (pc = "Pausing" /\ hist.desynced /\ hist.applied_since_desync)
        => /\ \A u \in Uids :
                state_writer.visible[u] # None => u \in hist.since_touched
           /\ delay_deletes_for = None => state_writer.visible = hist.since_fold

\* C5: with immediate deletes and no desync, at every invocation and at
\* termination the mirror is the fold of all versioned events so far over
\* the empty map.
C5_MirrorIsFold ==
    (delay_deletes_for = None /\ ~hist.desynced /\ pc \in {"InFlight", "Terminated"})
        => state_writer.visible = hist.folded

C5_Witness ==
    /\ delay_deletes_for = None
    /\ ~hist.desynced
    /\ pc = "Terminated"
    /\ hist.n_items = MaxItems
    /\ hist.folded # EmptyMap

\* A Bookmark event that carries a resourceVersion.
IsVersionedBookmark(item) ==
    /\ item.kind = "Ok"
    /\ item.event.type = "Bookmark"
    /\ item.event.object.resource_version # None

\* C6: the step that processes a Bookmark carrying a resourceVersion makes
\* no call on the writer, leaves the writer and the delayed-delete queue as
\* they were, and sets the cursor to the bookmark's resourceVersion.
C6_BookmarkOnlyMovesCursor ==
    [][(hist'.n_items = hist.n_items + 1 /\ IsVersionedBookmark(hist'.item[1]))
          => /\ hist'.calls = <<>>
             /\ state_writer' = state_writer
             /\ queue' = queue
             /\ resource_version' = hist'.item[1].event.object.resource_version]_vars

C6_Witness ==
    /\ hist.step = "item"
    /\ IsVersionedBookmark(hist.item[1])
    /\ queue # <<>>
    /\ resource_version = hist.item[1].event.object.resource_version

\* C7: with delayed deletes, the writer sees the deletes in the order the
\* Deleted events were received, and none earlier than delay_for after its
\* event was received.
C7_DelayedDeletesInOrderAndLate ==
    delay_deletes_for # None
        => /\ \A i, j \in 1..Len(hist.delete_log) :
                i < j => hist.delete_log[i] < hist.delete_log[j]
           /\ \A i \in 1..Len(hist.calls) :
                hist.calls[i].op = "delete"
                    => now >= hist.calls[i].object.at + delay_deletes_for[1]

C7_Witness ==
    /\ delay_deletes_for # None
    /\ Len(hist.delete_log) = 2
    /\ hist.step = "deadline"

\* C8: a Desync empties the delayed-delete queue without a delete reaching
\* the writer, and no delete is ever made for an item the desync dropped.
C8_DesyncDiscardsPendingDeletes ==
    /\ hist.step = "desync"
          => /\ queue = <<>>
             /\ \A i \in 1..Len(hist.calls) : hist.calls[i].op # "delete"
    /\ \A i \in 1..Len(hist.delete_log) : hist.delete_log[i] \notin hist.discarded

C8_Witness ==
    /\ hist.discarded # {}
    /\ hist.delete_log # <<>>

\* C9: every invocation is issued with allow_watch_bookmarks = true, no
\* pretty, no timeout_seconds, and the selectors the reflector was
\* constructed with.
C9_RequestOptions ==
    watch_optional # None
        => /\ Request.allow_watch_bookmarks = Some(TRUE)
           /\ Request.pretty = None
           /\ Request.timeout_seconds = None
           /\ Request.field_selector = field_selector
           /\ Request.label_selector = label_selector

C9_Witness ==
    /\ pc = "InFlight"
    /\ field_selector = Some("fields")
    /\ label_selector = Some("labels")
    /\ hist.desynced
    /\ hist.n_items > 0

\* C10: run is over exactly when it returned an error; it returns
\* Invocation exactly when the invocation failed with an Other error and
\* Streaming exactly when a stream item was an error, and once over it
\* stays over with the same error.
C10_TerminatesOnlyOnError ==
    /\ [](/\ (pc = "Terminated") = (result # None)
          /\ (result = Some("Invocation")) = (hist.step = "other")
          /\ (result = Some("Streaming"))
                = (hist.step = "item" /\ hist.item[1].kind = "Err"))
    /\ [][pc = "Terminated" => (pc' = "Terminated" /\ result' = result)]_vars

C10_Witness ==
    /\ pc = "Terminated"
    /\ result = Some("Streaming")
    /\ hist.desynced

\* C11 as stated: every invocation but the first is issued right after the
\* pause, whether the invocation before it ended cleanly or returned Desync.
C11_PauseBeforeEveryInvocation ==
    (pc = "InFlight" /\ hist.prev_result # "none") => hist.after = "pause"

\* C11 as amended: an invocation that follows a cleanly ended session is
\* issued right after the pause; one that follows a Desync is issued right
\* after the desync was handled, with no pause.
C11_PauseAfterStreamEndOnly ==
    pc = "InFlight"
        => /\ hist.prev_result = "ended" => hist.after = "pause"
           /\ hist.prev_result = "desync" => hist.after = "desync"
           /\ hist.prev_result = "none" => hist.after = "new"

C11_Witness ==
    /\ pc = "InFlight"
    /\ hist.prev_result = "ended"
    /\ hist.after = "pause"
    /\ hist.desynced

\* The front delete of the queue is due while the stream is being read.
DeadlineDue ==
    /\ pc = "Streaming"
    /\ delay_deletes_for # None
    /\ queue # <<>>
    /\ queue[1][2] <= now

\* The writer has seen the delete of the object that stream item id carried.
DeleteSeen(id) == \E i \in 1..Len(hist.delete_log) : hist.delete_log[i] = id

\* C12: while the stream is read with delayed deletes, a front delete that
\* is due reaches the writer sooner or later unless the session ends first,
\* however many stream items are ready in the meantime.
C12_DueDeleteIsServed ==
    \A id \in 1..MaxItems :
        (DeadlineDue /\ queue[1][1].id = id) ~> (DeleteSeen(id) \/ pc # "Streaming")

\* A stream item was processed although the front delete was already due.
C12_Witness ==
    /\ DeadlineDue
    /\ hist.step = "item"
    /\ hist.item[1].kind = "Ok"
    /\ hist.item[1].event.object.at >= queue[1][2]

\* The event of the last stream item changes the mirror: a versioned Added,
\* Modified or Deleted.
Mutating(item) ==
    Versioned(item) /\ item.event.type \in {"Added", "Modified", "Deleted"}

\* The writer call that applies a mutating event.
MutationOf(event) ==
    Call(CASE event.type = "Added" -> "add"
           [] event.type = "Modified" -> "update"
           [] event.type = "Deleted" -> "delete",
         event.object)

Increasing(ids) == \A i, j \in 1..Len(ids) : i < j => ids[i] < ids[j]

\* C13 as stated: when the mutation of an event is applied, no earlier event
\* of the same session has its own mutation still outstanding, with delayed
\* deletes enabled or disabled.
C13_AppliedInStreamOrder ==
    (hist.step = "item" /\ hist.calls # <<>>)
        => \A j \in 1..Len(queue) :
              ~(/\ hist.sess_first <= queue[j][1].id
                /\ queue[j][1].id < hist.calls[1].object.id)

\* C13 as amended: an event's mutation is applied in the step that consumes
\* the event, hence in stream order, except for the delete of a Deleted
\* event when deletes are delayed: that one is queued in stream order and
\* reaches the writer later, in the order of the Deleted events.
C13_InStreamOrderButDelayedDeletes ==
    /\ hist.step = "item" /\ hist.calls # <<>>
          => /\ Mutating(hist.item[1])
             /\ hist.calls = <<MutationOf(hist.item[1].event)>>
             /\ hist.calls[1].object.id = hist.n_items
    /\ hist.step = "item" /\ Mutating(hist.item[1]) /\ hist.calls = <<>>
          => /\ delay_deletes_for # None
             /\ hist.item[1].event.type = "Deleted"
             /\ queue # <<>>
             /\ queue[Len(queue)][1] = hist.item[1].event.object
    /\ delay_deletes_for = None => queue = <<>>
    /\ delay_deletes_for # None /\ hist.step = "item" => DeleteIds(hist.calls) = <<>>
    /\ hist.step = "deadline" => \A i \in 1..Len(hist.calls) : hist.calls[i].op = "delete"
    /\ Increasing(hist.delete_log \o [i \in 1..Len(queue) |-> queue[i][1].id])

\* Deletes are delayed and the mutation of a later event of the session is
\* applied while the delete of an earlier one is waiting in the queue.
C13_Witness ==
    /\ delay_deletes_for # None
    /\ hist.step = "item"
    /\ hist.calls # <<>>
    /\ \E j \in 1..Len(queue) :
          /\ hist.sess_first <= queue[j][1].id
          /\ queue[j][1].id < hist.calls[1].object.id

\* C14 as stated: whenever the cursor has just been set to the version of a
\* mutating event, the writer call of that event has been made.
C14_CommitAfterApply ==
    (/\ hist.step = "item"
     /\ Mutating(hist.item[1])
     /\ resource_version = hist.item[1].event.object.resource_version)
        => hist.calls = <<MutationOf(hist.item[1].event)>>

\* C14 as amended: whenever the cursor has just been set to the version of a
\* mutating event, the event has been dispatched: its writer call has been
\* made or, for a Deleted event with delayed deletes, its delete is the
\* newest entry of the queue and has not reached the writer.  A dispatch
\* that panics leaves the cursor behind the event.
C14_CommitAfterDispatch ==
    /\ (/\ hist.step = "item"
        /\ Mutating(hist.item[1])
        /\ resource_version = hist.item[1].event.object.resource_version)
          => IF delay_deletes_for # None /\ hist.item[1].event.type = "Deleted"
             THEN /\ hist.calls = <<>>
                  /\ queue # <<>>
                  /\ queue[Len(queue)] =
                        <<hist.item[1].event.object,
                          hist.item[1].event.object.at + delay_deletes_for[1]>>
             ELSE hist.calls = <<MutationOf(hist.item[1].event)>>
    /\ hist.step = "item" /\ Versioned(hist.item[1])
          => IF pc = "Panicked"
             THEN resource_version # hist.item[1].event.object.resource_version
             ELSE resource_version = hist.item[1].event.object.resource_version

\* The cursor holds the version of a Deleted event whose delete is waiting
\* in the queue.
C14_Witness ==
    /\ delay_deletes_for # None
    /\ hist.step = "item"
    /\ Mutating(hist.item[1])
    /\ hist.item[1].event.type = "Deleted"
    /\ resource_version = hist.item[1].event.object.resource_version
    /\ hist.calls = <<>>
    /\ queue # <<>>
    /\ queue[Len(queue)][1] = hist.item[1].event.object

\* An iteration of the inner loop took the stream branch and processed an
\* item, or took the deadline branch.
StreamBranch == pc = "Streaming" /\ now' = now /\ hist'.step = "item"

DeadlineBranch == pc = "Streaming" /\ now' = now /\ hist'.step = "deadline"

\* A stream item process_stream_item is said to skip.
Skipped(item) == item.kind = "Other" \/ (item.kind = "Ok" /\ ~Versioned(item))

\* C15: processing a WatchResponse::Other, or an event of any variant that
\* carries no resourceVersion, leaves the cursor, the mirror and the queue as
\* they were, makes no writer call, raises no error and goes on streaming.
C15_SkippedItemChangesNothing ==
    [][(StreamBranch /\ Skipped(hist'.item[1]))
          => /\ resource_version' = resource_version
             /\ state_writer' = state_writer
             /\ queue' = queue
             /\ hist'.calls = <<>>
             /\ result' = result
             /\ pc' = "Streaming"]_vars

\* A Deleted event without resourceVersion was skipped while its object is
\* in the mirror.
C15_Witness ==
    /\ hist.step = "item"
    /\ pc = "Streaming"
    /\ hist.item[1].kind = "Ok"
    /\ hist.item[1].event.type = "Deleted"
    /\ hist.item[1].event.object.resource_version = None
    /\ state_writer.visible[hist.item[1].event.object.uid[1]] # None
    /\ resource_version # None

C17_ResyncOncePerDesync ==
    LET resyncs == SelectSeq(hist.calls, LAMBDA c : c.op = "resync")
    IN  IF hist.step = "desync"
        THEN /\ Len(resyncs) = 1
             /\ hist.calls = <<Call("resync", None)>>
             /\ resource_version = None
             /\ queue = <<>>
             /\ state_writer.purge_pending
             /\ pc = "Invoking"
        ELSE resyncs = <<>>

\* A desync has been handled that reset a cursor and cleared a non-empty
\* queue.
C17_Witness ==
    /\ hist.step = "desync"
    /\ hist.pre_desync.cursor # None
    /\ hist.discarded # {}
    /\ hist.calls = <<Call("resync", None)>>

\* C18: an iteration that takes the deadline branch consumes no stream item
\* and leaves the cursor and the position in the stream as they were; an
\* iteration that takes the stream branch makes no delayed delete: the queue
\* is as it was, or has the delete the processed event scheduled appended.
C18_OneBranchPerIteration ==
    [][/\ DeadlineBranch
             => /\ hist'.item = None
                /\ hist'.n_items = hist.n_items
                /\ resource_version' = resource_version
                /\ pc' = "Streaming"
                /\ result' = result
       /\ (StreamBranch /\ delay_deletes_for # None)
             => /\ DeleteIds(hist'.calls) = <<>>
                /\ hist'.delete_log = hist.delete_log
                /\ \/ queue' = queue
                   \/ /\ Versioned(hist'.item[1])
                      /\ hist'.item[1].event.type = "Deleted"
                      /\ queue' = Append(queue, <<hist'.item[1].event.object,
                                                  now + delay_deletes_for[1]>>)]_vars

\* The stream branch processed a versioned event while a delete was due, and
\* the delete is still in the queue.
C18_Witness ==
    /\ hist.step = "item"
    /\ Versioned(hist.item[1])
    /\ delay_deletes_for # None
    /\ queue # <<>>
    /\ queue[1][2] <= hist.item[1].event.object.at
    /\ ~DeleteSeen(queue[1][1].id)

\* C19: while the stream is read with delayed deletes, the deadline branch
\* may be polled if and only if the queue is not empty, and run never
\* panics with "no deadline".
C19_DeadlineBranchOnlyWithDeadline ==
    /\ (pc = "Streaming" /\ delay_deletes_for # None)
          => (next_deadline_delay(queue).should_poll <=> queue # <<>>)
    /\ (pc = "Streaming" /\ delay_deletes_for # None /\ queue # <<>>)
          => next_deadline_delay(queue).deadline = Some(queue[1][2])
    /\ ~(pc = "Panicked" /\ hist.step = "no deadline")

\* The deadline branch emptied the queue and the stream is read on.
C19_Witness ==
    /\ pc = "Streaming"
    /\ delay_deletes_for # None
    /\ hist.step = "deadline"
    /\ hist.calls # <<>>
    /\ queue = <<>>

\* The longest prefix of q whose deadlines are all reached at instant t.
DuePrefix(q, t) ==
    CHOOSE k \in 0..Len(q) :
        /\ \A i \in 1..k : q[i][2] <= t
        /\ k < Len(q) => q[k + 1][2] > t

C21_DeadlinesNonDecreasing ==
    /\ \A i, j \in 1..Len(queue) : i <= j => queue[i][2] <= queue[j][2]
    /\ queue # <<>>
          => /\ next_deadline(queue) = Some(queue[1][2])
             /\ \A i \in 1..Len(queue) : next_deadline(queue)[1] <= queue[i][2]

\* The queue was cleared by a desync and holds two deletes scheduled at
\* different instants since.
C21_Witness ==
    /\ hist.desynced
    /\ Len(queue) >= 2
    /\ queue[1][2] < queue[2][2]

\* C22: run never panics in process_event: an event that reaches the
\* dispatch is Added, Modified, Deleted or Bookmark, any other event gives
\* no resourceVersion candidate and is dropped before.
C22_CatchAllNeverReached ==
    /\ pc # "Panicked"
    /\ (hist.step = "item" /\ hist.item[1].kind = "Ok"
           /\ hist.item[1].event.type \notin EventTypes)
          => /\ from_watch_event(hist.item[1].event) = None
             /\ hist.calls = <<>>
             /\ pc = "Streaming"
    /\ (hist.step = "item" /\ hist.item[1].kind = "Ok"
           /\ resource_version = hist.item[1].event.object.resource_version
           /\ resource_version # None)
          => hist.item[1].event.type \in EventTypes

\* An event of another shape was received and dropped, after events that
\* were dispatched.
C22_Witness ==
    /\ hist.step = "item"
    /\ hist.item[1].kind = "Ok"
    /\ hist.item[1].event.type = "ErrorStatus"
    /\ pc = "Streaming"
    /\ resource_version # None

\* C23: the step at which run returns an error makes no writer call and
\* leaves the cursor, the queue and the mirror as they were: Invocation
\* from a request in flight, Streaming from a stream that is read.  As long
\* as no event was received the mirror is empty and the cursor absent.
C23_FatalErrorChangesNothing ==
    [][/\ (pc # "Terminated" /\ pc' = "Terminated")
             => /\ resource_version' = resource_version
                /\ queue' = queue
                /\ state_writer' = state_writer
                /\ hist'.calls = <<>>
                /\ hist'.delete_log = hist.delete_log
                /\ \/ pc = "InFlight" /\ result' = Some("Invocation")
                   \/ pc = "Streaming" /\ result' = Some("Streaming")
       /\ hist'.n_items = 0
             => /\ state_writer'.visible = EmptyMap
                /\ resource_version' = None]_vars

\* The stream failed while a delete was queued, after events that were
\* applied and committed.
C23_Witness ==
    /\ pc = "Terminated"
    /\ result = Some("Streaming")
    /\ queue # <<>>
    /\ resource_version # None
    /\ \E u \in Uids : state_writer.visible[u] # None

\* C24: with delayed deletes, a delete reaches the writer only in a deadline
\* step of the streaming loop.  Outside the loop the queue stays as it is,
\* whatever deadlines elapse, except that the handling of a Desync empties
\* it without a delete.
C24_DeletesOnlyWhileStreaming ==
    [][(delay_deletes_for # None /\ now' = now)
          => /\ (hist'.delete_log # hist.delete_log \/ DeleteIds(hist'.calls) # <<>>)
                   => DeadlineBranch /\ pc' = "Streaming"
             /\ pc # "Streaming"
                   => \/ queue' = queue
                      \/ /\ pc = "InFlight"
                         /\ hist'.step = "desync"
                         /\ queue' = <<>>
                         /\ DeleteIds(hist'.calls) = <<>>
                         /\ QueueIds(queue) \subseteq hist'.discarded]_vars

\* A request is in flight after a pause, and the front delete, due by now,
\* has not reached the writer.
C24_Witness ==
    /\ delay_deletes_for # None
    /\ pc = "InFlight"
    /\ hist.after = "pause"
    /\ queue # <<>>
    /\ queue[1][2] <= now
    /\ ~DeleteSeen(queue[1][1].id)

\* C25: the cursor changes only when a versioned event is processed, to the
\* version of that event, and when a Desync is handled, to absent.  The
\* request that follows a session without versioned event carries the
\* resource_version of the request before it.
C25_CursorChangesOnlyTwoWays ==
    [][/\ resource_version' # resource_version
             => \/ /\ StreamBranch
                   /\ Versioned(hist'.item[1])
                   /\ resource_version' = hist'.item[1].event.object.resource_version
                \/ /\ pc = "InFlight"
                   /\ hist'.step = "desync"
                   /\ resource_version' = None
       /\ (/\ pc = "Invoking"
           /\ pc' = "InFlight"
           /\ hist.prev_result = "ended"
           /\ hist.sess_last_rv = None)
             => /\ watch_optional # None
                /\ watch_optional'[1].resource_version =
                      watch_optional[1].resource_version]_vars

\* A request is in flight after a session without versioned event, with a
\* cursor that an earlier session set.
C25_Witness ==
    /\ pc = "InFlight"
    /\ hist.prev_result = "ended"
    /\ hist.sess_last_rv = None
    /\ resource_version # None
    /\ Request.resource_version = resource_version

\* C26: with delayed deletes, an Added or Modified event leaves the queue as
\* it is, and the deadline step deletes every due object from the mirror,
\* whatever was applied for the object since its delete was scheduled.
C26_ScheduledDeleteNotCancelled ==
    [][delay_deletes_for # None
          => /\ (/\ StreamBranch
                 /\ Versioned(hist'.item[1])
                 /\ hist'.item[1].event.type \in {"Added", "Modified"})
                   => queue' = queue
             /\ DeadlineBranch
                   => \A i \in 1..DuePrefix(queue, now) :
                         /\ \E c \in 1..Len(hist'.calls) :
                               hist'.calls[c] = Call("delete", queue[i][1])
                         /\ state_writer'.visible[queue[i][1].uid[1]] = None
                         /\ ~state_writer'.purge_pending]_vars

\* The deadline step deleted an object that an event later than its Deleted
\* event had put in the mirror.
C26_Witness ==
    /\ hist.step = "deadline"
    /\ hist.calls # <<>>
    /\ hist.folded[hist.calls[1].object.uid[1]] # None
    /\ state_writer.visible[hist.calls[1].object.uid[1]] = None
    /\ ~state_writer.purge_pending

====
